---- MODULE Spec2Model ----
(***************************************************************************)
(* Model of the ConstrainedFruitVoting component of src/Aimess.jsx: the    *)
(* participants' ballots (users), the greedy constrained allocation        *)
(* (findOptimalPlanWithConstraints), the effect that recomputes the plan   *)
(* whenever users changes, the per-participant availability filter         *)
(* (getAvailableFruits) and the handlers of the participant list and of    *)
(* the ballot grid.                                                        *)
(***************************************************************************)
EXTENDS Integers, Sequences, FiniteSets, TLC

\* users is the object of the ballots and userKeys the order of its keys
\* (Object.keys(users)).
VARIABLES users, userKeys, selectedUser, optimalPlan, constraintStatus, mounted

vars == <<users, userKeys, selectedUser, optimalPlan, constraintStatus, mounted>>

(***************************************************************************)
(* Catalogs (lines 5-7).                                                   *)
(***************************************************************************)
days == <<"Monday", "Tuesday", "Wednesday", "Thursday", "Friday", "Saturday">>

fruits == <<"Apple", "Banana", "Orange", "Mango", "Grapes", "Strawberry", "Cherry", "Peach", "Pear", "Kiwi">>

meals == <<"Lunch", "Dinner">>

\* initializeUsers creates "User 1" .. "User 4".
InitialUserCount == 4

\* The per-week usage cap of constraint 2.
MaxPerWeek == 2

(***************************************************************************)
(* Bounds of the model.                                                    *)
(***************************************************************************)
\* The participants who vote are "User 1" .. "User NumVoters".
NumVoters == 3

\* Votes go to the first NumVoteFruits fruits of the catalog.
NumVoteFruits == 2

\* The ballot sets the allocation is run on hold at most MaxVotes selections.
MaxVotes == 4

\* Editing stops adding selections once MaxEdited slots, over all ballots, hold one.
MaxEdited == 2

\* addNewUser is not called on MaxUsers participants.
MaxUsers == 5

\* Math.random() returns a multiple of 1 / RandomSteps, the same at every
\* draw of one call of quickFillRandom.
RandomSteps == 2

\* While participants are added and removed, the first NumEditSlots slots are edited.
NumEditSlots == 1

(***************************************************************************)
(* JavaScript values.                                                      *)
(***************************************************************************)
\* The null fruit of a plan record with no selection.
null == "null"

\* NaN, the value of undefined++ (a tally is otherwise a natural number).
NaN == -1

\* An item that is not in the fruit catalog.
NonCatalogItem == "Durian"

Range(s) == {s[i] : i \in DOMAIN s}

DaySet == Range(days)

MealSet == Range(meals)

FruitSet == Range(fruits)

\* days.indexOf(day), 1-based.
IndexOf(seq, x) == CHOOSE i \in DOMAIN seq : seq[i] = x

UserName(i) == "User " \o ToString(i)

\* The slots in processing order: days.forEach(day => meals.forEach(meal => ..)).
Slots == [i \in 1..(Len(days) * Len(meals)) |-> <<days[((i - 1) \div Len(meals)) + 1], meals[((i - 1) % Len(meals)) + 1]>>]

(***************************************************************************)
(* initializeUsers (lines 10-22): four participants with empty ballots.    *)
(***************************************************************************)
EmptyBallot == [day \in DaySet |-> [meal \in MealSet |-> ""]]

initializeUsers == [u \in {UserName(i) : i \in 1..InitialUserCount} |-> EmptyBallot]

\* Object.keys(initializeUsers()): the keys are inserted in the order of their number.
InitialKeys == [i \in 1..InitialUserCount |-> UserName(i)]

\* The keys of us as the tally of line 116 walks them. The tally is a sum over
\* the participants, so they are taken in the order of their number.
UserKeys(us) == SelectSeq([i \in 1..MaxUsers |-> UserName(i)], LAMBDA u : u \in DOMAIN us)

(***************************************************************************)
(* getAvailableFruits (lines 31-97): the fruits offered to a participant   *)
(* for one slot.                                                           *)
(***************************************************************************)
RECURSIVE UserFruitCount(_, _, _, _, _)
\* Lines 33-48: the selections of the ballot at the slots other than the
\* target, counted per fruit, from slot i on (a key that is missing gets NaN).
UserFruitCount(userFruitCount, ballot, targetDay, targetMeal, i) ==
    IF i > Len(Slots)
    THEN userFruitCount
    ELSE LET day == Slots[i][1]
             meal == Slots[i][2]
             selectedFruit == ballot[day][meal]
         IN  UserFruitCount(
                 IF ~(day = targetDay /\ meal = targetMeal) /\ selectedFruit # ""
                 THEN IF selectedFruit \in DOMAIN userFruitCount
                      THEN [userFruitCount EXCEPT ![selectedFruit] = IF @ = NaN THEN NaN ELSE @ + 1]
                      ELSE userFruitCount @@ (selectedFruit :> NaN)
                 ELSE userFruitCount,
                 ballot, targetDay, targetMeal, i + 1)

\* Lines 51-52: the selection at the other meal of the target day.
SameDaySelection(ballot, targetDay, targetMeal) ==
    ballot[targetDay][IF targetMeal = "Lunch" THEN "Dinner" ELSE "Lunch"]

\* Lines 60-67 and 69-76: the selections of one adjacent day, in meal order.
DayFruits(ballot, day) ==
    SelectSeq([j \in 1..Len(meals) |-> ballot[day][meals[j]]], LAMBDA fruit : fruit # "")

\* AdjacentDayFruits without the next day.
AdjacentDayFruits_previousOnly(ballot, targetDay) ==
    LET dayIndex == IndexOf(days, targetDay)
    IN  IF dayIndex > 1 THEN DayFruits(ballot, days[dayIndex - 1]) ELSE <<>>

\* Lines 55-76: the selections of the previous day, then those of the next day.
AdjacentDayFruits(ballot, targetDay) ==
    LET dayIndex == IndexOf(days, targetDay)
    IN  (IF dayIndex > 1 THEN DayFruits(ballot, days[dayIndex - 1]) ELSE <<>>)
            \o (IF dayIndex < Len(days) THEN DayFruits(ballot, days[dayIndex + 1]) ELSE <<>>)

\* The body of getAvailableFruits on the ballot it reads.
AvailableFruits(ballot, targetDay, targetMeal) ==
    LET userFruitCount == UserFruitCount([fruit \in FruitSet |-> 0], ballot, targetDay, targetMeal, 1)
        sameDaySelection == SameDaySelection(ballot, targetDay, targetMeal)
        adjacentDayFruits == AdjacentDayFruits(ballot, targetDay)
    IN  SelectSeq(fruits, LAMBDA fruit :
            /\ sameDaySelection # fruit
            /\ fruit \notin Range(adjacentDayFruits)
            /\ ~(userFruitCount[fruit] # NaN /\ userFruitCount[fruit] >= 2))

getAvailableFruits(targetUser, targetDay, targetMeal) == AvailableFruits(users[targetUser], targetDay, targetMeal)

(***************************************************************************)
(* Step 1 of findOptimalPlanWithConstraints: the vote tally.               *)
(***************************************************************************)
\* Lines 102-111: every catalog fruit starts at 0 in every slot.
ZeroVoteCounts == [day \in DaySet |-> [meal \in MealSet |-> [fruit \in FruitSet |-> 0]]]

\* x++ on a tally entry: NaN stays NaN.
Increment(v) == IF v = NaN THEN NaN ELSE v + 1

\* Lines 117-120 for one ballot entry, on the tally of its slot: a key that is
\* missing reads undefined, and undefined++ stores NaN under it.
CountSelection(mealVotes, selectedFruit) ==
    IF selectedFruit = ""
    THEN mealVotes
    ELSE IF selectedFruit \in DOMAIN mealVotes
         THEN [mealVotes EXCEPT ![selectedFruit] = Increment(@)]
         ELSE mealVotes @@ (selectedFruit :> NaN)

RECURSIVE CountSlot(_, _, _, _, _, _)
\* Lines 114-123 for one slot: the selections of the participants at the slot,
\* from the k-th participant on. A selection changes the tally of its own slot
\* only, so the tally of a slot is the one the loops of the code leave there.
CountSlot(mealVotes, us, keys, day, meal, k) ==
    IF k > Len(keys)
    THEN mealVotes
    ELSE CountSlot(CountSelection(mealVotes, us[keys[k]][day][meal]), us, keys, day, meal, k + 1)

CountVotes(us) ==
    [day \in DaySet |-> [meal \in MealSet |-> CountSlot(ZeroVoteCounts[day][meal], us, UserKeys(us), day, meal, 1)]]

(***************************************************************************)
(* Step 2: the candidates of a slot (lines 141-146).                       *)
(***************************************************************************)
\* Object.entries(mealVotes): the catalog keys in catalog order, then a key
\* that vote counting added.
Entries(mealVotes) ==
    [i \in 1..Len(fruits) |-> <<fruits[i], mealVotes[fruits[i]]>>]
        \o (IF NonCatalogItem \in DOMAIN mealVotes THEN <<<<NonCatalogItem, mealVotes[NonCatalogItem]>>>> ELSE <<>>)

\* The comparator ([,a], [,b]) => b - a; a NaN result counts as +0.
Compare(x, y) == IF x[2] = NaN \/ y[2] = NaN THEN 0 ELSE y[2] - x[2]

\* votes > 0 (false for NaN).
Positive(entry) == entry[2] # NaN /\ entry[2] > 0

\* StableSort that leaves the entries in catalog order.
StableSort_unsorted(entries, levels) == entries

RECURSIVE StableSort(_, _)
\* Array.prototype.sort with a consistent comparator: the entries by descending
\* votes, over the vote counts levels; entries that compare equal keep their order.
StableSort(entries, levels) ==
    IF levels = {}
    THEN <<>>
    ELSE LET v == CHOOSE x \in levels : \A y \in levels : y <= x
         IN  SelectSeq(entries, LAMBDA e : Compare(e, <<"", v>>) = 0) \o StableSort(entries, levels \ {v})

Orderings(S) == {s \in [1..Cardinality(S) -> S] : Range(s) = S}

\* Every value sortedCandidates can take. With a NaN tally in the slot the
\* comparator is not consistent and the sort order is implementation-defined:
\* any order of the entries, of which the filter keeps the positive ones.
SortedCandidates(mealVotes) ==
    LET entries == Entries(mealVotes)
    IN  IF \E i \in DOMAIN entries : entries[i][2] = NaN
        THEN Orderings({entries[i] : i \in {j \in DOMAIN entries : Positive(entries[j])}})
        ELSE {SelectSeq(StableSort(entries, {entries[i][2] : i \in DOMAIN entries}), Positive)}

(***************************************************************************)
(* Step 2: the constraint checks of one candidate (lines 154-187).         *)
(***************************************************************************)
\* plan[day]?.[meal]?.fruit; a missing record reads undefined, which like
\* null is falsy and equal to no fruit.
PlanFruit(plan, day, meal) ==
    IF day \in DOMAIN plan /\ meal \in DOMAIN plan[day] THEN plan[day][meal].fruit ELSE null

\* CurrentDaySelections that reads the meal itself instead of the other meals.
CurrentDaySelections_sameMeal(plan, day, meal) ==
    {PlanFruit(plan, day, m) : m \in {x \in MealSet : x = meal /\ PlanFruit(plan, day, x) # null}}

\* Lines 158-166: the fruits the plan holds at the other meals of the day.
CurrentDaySelections(plan, day, meal) ==
    {PlanFruit(plan, day, m) : m \in {x \in MealSet : x # meal /\ PlanFruit(plan, day, x) # null}}

\* Lines 168-171, constraint 1a.
SameDayRule(plan, day, meal, fruit) == fruit \in CurrentDaySelections(plan, day, meal)

\* ConsecutiveDaysRule that compares with the previous Lunch only.
ConsecutiveDaysRule_lunchOnly(plan, previousDay, fruit) ==
    /\ previousDay # null
    /\ fruit = PlanFruit(plan, previousDay, "Lunch")

\* Lines 174-181, constraint 1b (previousDay is null for Monday).
ConsecutiveDaysRule(plan, previousDay, fruit) ==
    /\ previousDay # null
    /\ \/ fruit = PlanFruit(plan, previousDay, "Lunch")
       \/ fruit = PlanFruit(plan, previousDay, "Dinner")

\* MaxTimesRule with > for >=.
MaxTimesRule_offByOne(fruitUsageCount, fruit) == fruitUsageCount[fruit] > MaxPerWeek

\* Lines 184-187, constraint 2.
MaxTimesRule(fruitUsageCount, fruit) == fruitUsageCount[fruit] >= MaxPerWeek

\* ViolationReason that checks the usage cap before the previous day.
ViolationReason_capFirst(plan, fruitUsageCount, day, meal, previousDay, fruit) ==
    IF SameDayRule(plan, day, meal, fruit) THEN "Same day rule"
    ELSE IF MaxTimesRule(fruitUsageCount, fruit) THEN "Max 2 times per week rule"
    ELSE IF ConsecutiveDaysRule(plan, previousDay, fruit) THEN "Consecutive days rule"
    ELSE ""

\* violationReason after the three checks; '' when canSelect is still true.
ViolationReason(plan, fruitUsageCount, day, meal, previousDay, fruit) ==
    IF SameDayRule(plan, day, meal, fruit) THEN "Same day rule"
    ELSE IF ConsecutiveDaysRule(plan, previousDay, fruit) THEN "Consecutive days rule"
    ELSE IF MaxTimesRule(fruitUsageCount, fruit) THEN "Max 2 times per week rule"
    ELSE ""

\* The template literals of lines 191 and 207.
NoViolationsReason(votes) == ToString(votes) \o " votes, no violations"

ForcedReason(votes) == "Forced selection (" \o ToString(votes) \o " votes)"

\* LogViolation that logs one rejected candidate for a slot at most.
LogViolation_once(violations, selectedFruit, entry) ==
    IF selectedFruit = null /\ ~\E i \in DOMAIN violations : violations[i].day = entry.day /\ violations[i].meal = entry.meal
    THEN Append(violations, entry)
    ELSE violations

\* Lines 193-201: a candidate that cannot be selected is logged while no fruit
\* is selected.
LogViolation(violations, selectedFruit, entry) ==
    IF selectedFruit = null THEN Append(violations, entry) ELSE violations

RECURSIVE TryCandidates(_, _, _, _, _, _, _)
\* Lines 153-202: the walk over sortedCandidates from the i-th on. The first
\* candidate that can be selected ends it (break), so selectedFruit is still
\* null whenever a candidate is rejected.
TryCandidates(plan, fruitUsageCount, violations, day, meal, sortedCandidates, i) ==
    IF i > Len(sortedCandidates)
    THEN [selectedFruit |-> null, selectionReason |-> "", violations |-> violations]
    ELSE LET fruit == sortedCandidates[i][1]
             votes == sortedCandidates[i][2]
             dayIndex == IndexOf(days, day)
             previousDay == IF dayIndex > 1 THEN days[dayIndex - 1] ELSE null
             violationReason == ViolationReason(plan, fruitUsageCount, day, meal, previousDay, fruit)
         IN  IF violationReason = ""
             THEN [selectedFruit |-> fruit, selectionReason |-> NoViolationsReason(votes), violations |-> violations]
             ELSE TryCandidates(plan, fruitUsageCount,
                                LogViolation(violations, null, [day |-> day, meal |-> meal, fruit |-> fruit, reason |-> violationReason, votes |-> votes]),
                                day, meal, sortedCandidates, i + 1)

(***************************************************************************)
(* Step 2: the selection of one slot (lines 141-232).                      *)
(***************************************************************************)
\* ForcedSelection that takes the last candidate instead of the first.
ForcedSelection_last(sortedCandidates) ==
    [selectedFruit |-> sortedCandidates[Len(sortedCandidates)][1],
     selectionReason |-> ForcedReason(sortedCandidates[Len(sortedCandidates)][2]),
     hasViolation |-> TRUE]

\* Lines 204-209: with no selectable candidate the most voted one is taken.
ForcedSelection(sortedCandidates) ==
    [selectedFruit |-> sortedCandidates[1][1],
     selectionReason |-> ForcedReason(sortedCandidates[1][2]),
     hasViolation |-> TRUE]

\* RecordSelection without the else branch: no record when nothing is selected.
RecordSelection_noElse(plan, day, meal, mealVotes, totalUsers, selectedFruit, selectionReason, hasViolation) ==
    IF selectedFruit # null
    THEN [plan EXCEPT ![day] = @ @@ (meal :> [fruit |-> selectedFruit,
                                              votes |-> IF mealVotes[selectedFruit] = NaN THEN 0 ELSE mealVotes[selectedFruit],
                                              totalUsers |-> totalUsers,
                                              reason |-> selectionReason,
                                              hasViolation |-> hasViolation])]
    ELSE plan

\* Lines 211-232: the record of the slot.
RecordSelection(plan, day, meal, mealVotes, totalUsers, selectedFruit, selectionReason, hasViolation) ==
    IF selectedFruit # null
    THEN [plan EXCEPT ![day] = @ @@ (meal :> [fruit |-> selectedFruit,
                                              votes |-> IF mealVotes[selectedFruit] = NaN THEN 0 ELSE mealVotes[selectedFruit],
                                              totalUsers |-> totalUsers,
                                              reason |-> selectionReason,
                                              hasViolation |-> hasViolation])]
    ELSE [plan EXCEPT ![day] = @ @@ (meal :> [fruit |-> null,
                                              votes |-> 0,
                                              totalUsers |-> totalUsers,
                                              reason |-> "No selection",
                                              hasViolation |-> FALSE])]

\* Line 222: the usage counter of the selected fruit.
UpdateUsage(fruitUsageCount, selectedFruit) ==
    IF selectedFruit # null
    THEN [fruitUsageCount EXCEPT ![selectedFruit] = @ + 1]
    ELSE fruitUsageCount

\* The body of meals.forEach for one slot, given the value of sortedCandidates.
SelectSlot(run, mealVotes, totalUsers, day, meal, sortedCandidates) ==
    LET tried == TryCandidates(run.plan, run.fruitUsage, run.violations, day, meal, sortedCandidates, 1)
        selection == IF tried.selectedFruit = null /\ Len(sortedCandidates) > 0
                     THEN ForcedSelection(sortedCandidates)
                     ELSE [selectedFruit |-> tried.selectedFruit,
                           selectionReason |-> tried.selectionReason,
                           hasViolation |-> FALSE]
    IN  [plan |-> RecordSelection(run.plan, day, meal, mealVotes, totalUsers,
                                  selection.selectedFruit, selection.selectionReason, selection.hasViolation),
         fruitUsage |-> UpdateUsage(run.fruitUsage, selection.selectedFruit),
         violations |-> tried.violations]

RECURSIVE ProcessMeals(_, _, _, _, _)
\* Lines 140-233: meals.forEach from the j-th meal on; the set of outcomes.
ProcessMeals(run, voteCounts, totalUsers, day, j) ==
    IF j > Len(meals)
    THEN {run}
    ELSE UNION {ProcessMeals(SelectSlot(run, voteCounts[day][meals[j]], totalUsers, day, meals[j], sortedCandidates),
                             voteCounts, totalUsers, day, j + 1)
                : sortedCandidates \in SortedCandidates(voteCounts[day][meals[j]])}

RECURSIVE ProcessDays(_, _, _, _)
\* Lines 136-234: days.forEach from the i-th day on; plan[day] = {} first.
ProcessDays(run, voteCounts, totalUsers, i) ==
    IF i > Len(days)
    THEN {run}
    ELSE UNION {ProcessDays(r, voteCounts, totalUsers, i + 1)
                : r \in ProcessMeals([run EXCEPT !.plan = @ @@ (days[i] :> <<>>)], voteCounts, totalUsers, days[i], 1)}

\* NewRun with a log that is not created anew: it goes on from the published one.
NewRun_keepLog == [plan |-> <<>>, fruitUsage |-> [fruit \in FruitSet |-> 0], violations |-> constraintStatus.violations]

\* Lines 126-133: the plan, the usage counters and the log a run starts with.
NewRun == [plan |-> <<>>, fruitUsage |-> [fruit \in FruitSet |-> 0], violations |-> <<>>]

\* Lines 100-237: every { plan, fruitUsage, violations } the call can return
\* for the ballots us (one, unless a sort order is implementation-defined).
findOptimalPlanWithConstraints(us) == ProcessDays(NewRun, CountVotes(us), Cardinality(DOMAIN us), 1)

(***************************************************************************)
(* The effect on [users] (lines 240-255).                                  *)
(***************************************************************************)
\* Lines 245-247.
OverUsed(fruitUsage) == SelectSeq(fruits, LAMBDA fruit : fruitUsage[fruit] > 2)

\* Line 249.
Summary(violations, overUsed) ==
    ToString(Len(violations)) \o " constraint conflicts, " \o ToString(Len(overUsed)) \o " fruits over-used"

useEffect(us) ==
    \E result \in findOptimalPlanWithConstraints(us) :
        /\ optimalPlan' = result.plan
        /\ constraintStatus' = [violations |-> result.violations,
                               summary |-> Summary(result.violations, OverUsed(result.fruitUsage)),
                               fruitUsage |-> result.fruitUsage]

(***************************************************************************)
(* The state after construction (lines 24-27) and the handlers.            *)
(***************************************************************************)
Init ==
    /\ users = initializeUsers
    /\ userKeys = InitialKeys
    /\ selectedUser = "User 1"
    /\ optimalPlan = <<>>
    /\ constraintStatus = [violations |-> <<>>, summary |-> ""]
    /\ mounted = FALSE

\* The first render: the effect runs on the initial users.
Mount ==
    /\ ~mounted
    /\ mounted' = TRUE
    /\ UNCHANGED <<users, userKeys, selectedUser>>
    /\ useEffect(users)

\* The number of slots, over all ballots, that hold a selection.
Votes(us) == Cardinality({t \in (DOMAIN us) \X DaySet \X MealSet : us[t[1]][t[2]][t[3]] # ""})

\* Lines 257-268, followed by the effect on the new users. The select of
\* line 511 fires onChange only with a value other than the one it shows.
updateUserSelection(user, day, meal, fruit) ==
    /\ mounted
    /\ fruit # users[user][day][meal]
    /\ users' = [users EXCEPT ![user][day][meal] = fruit]
    /\ Votes(users') <= MaxEdited
    /\ UNCHANGED <<userKeys, selectedUser, mounted>>
    /\ useEffect(users')

\* Lines 299-304 when the dialog is confirmed, followed by the effect.
resetAllVotes ==
    /\ mounted
    /\ users' = initializeUsers
    /\ userKeys' = InitialKeys
    /\ selectedUser' = "User 1"
    /\ UNCHANGED mounted
    /\ useEffect(users')

Voters == {UserName(i) : i \in 1..NumVoters}

VoteFruits == {fruits[i] : i \in 1..NumVoteFruits}

\* The component from its construction on; the ballots hold catalog fruits.
Next ==
    \/ Mount
    \/ \E user \in Voters \cap DOMAIN users, day \in DaySet, meal \in MealSet, fruit \in VoteFruits \cup {""} :
           updateUserSelection(user, day, meal, fruit)
    \/ resetAllVotes

Spec == Init /\ [][Next]_vars

\* The same, with a caller of updateUserSelection that also passes an item
\* outside the catalog.
NextRaw ==
    \/ Mount
    \/ \E user \in Voters \cap DOMAIN users, day \in DaySet, meal \in MealSet, fruit \in VoteFruits \cup {"", NonCatalogItem} :
           updateUserSelection(user, day, meal, fruit)
    \/ resetAllVotes

SpecRaw == Init /\ [][NextRaw]_vars

(***************************************************************************)
(* The allocation as a function of the ballots: the component is mounted   *)
(* on a ballot set drawn from the sets with at most MaxVotes selections.   *)
(* Who cast a vote does not enter the tally, so the votes of a slot are    *)
(* those of the first voters.                                              *)
(***************************************************************************)
\* The votes one slot can get: the selections of the first n voters, n <= budget.
SlotVotes(budget) ==
    UNION {[1..n -> VoteFruits] : n \in 0..(IF budget < NumVoters THEN budget ELSE NumVoters)}

RECURSIVE VotePatterns(_, _)
\* For the slots from the i-th on: the votes of each, budget selections in all at most.
VotePatterns(i, budget) ==
    IF i > Len(Slots)
    THEN {<<>>}
    ELSE UNION {{<<v>> \o rest : rest \in VotePatterns(i + 1, budget - Len(v))} : v \in SlotVotes(budget)}

\* The ballots in which voter k selects the k-th vote of each slot.
BallotsOf(pattern) ==
    [u \in DOMAIN initializeUsers |->
        [day \in DaySet |->
            [meal \in MealSet |->
                LET votes == pattern[(IndexOf(days, day) - 1) * Len(meals) + IndexOf(meals, meal)]
                    k == CHOOSE i \in 1..InitialUserCount : UserName(i) = u
                IN  IF k <= Len(votes) THEN votes[k] ELSE ""]]]

InitBallots ==
    /\ \E pattern \in VotePatterns(1, MaxVotes) : users = BallotsOf(pattern)
    /\ userKeys = InitialKeys
    /\ selectedUser = "User 1"
    /\ optimalPlan = <<>>
    /\ constraintStatus = [violations |-> <<>>, summary |-> ""]
    /\ mounted = FALSE

NextBallots == Mount

SpecBallots == InitBallots /\ [][NextBallots]_vars

(***************************************************************************)
(* The ballot grid as the page offers it: the participant buttons, the     *)
(* selects of the grid (lines 509-520) and the quick fill.                 *)
(***************************************************************************)
\* Line 472: the button of a participant.
setSelectedUser(user) ==
    /\ mounted
    /\ selectedUser' = user
    /\ UNCHANGED <<users, userKeys, optimalPlan, constraintStatus, mounted>>

\* Lines 514-519: the values of the options of the select of a slot.
SelectOptions(day, meal) == {""} \cup Range(getAvailableFruits(selectedUser, day, meal))

\* Math.floor(Math.random() * n) when Math.random() returns r / RandomSteps.
RandomIndex(r, n) == (r * n) \div RandomSteps

\* FillSlot that draws from the catalog instead of the available fruits.
FillSlot_anyFruit(ballot, day, meal, r) ==
    [ballot EXCEPT ![day][meal] = fruits[RandomIndex(r, Len(fruits)) + 1]]

\* Lines 312-316: the fill of one slot. newUsers is a shallow copy of users,
\* so the assignment of line 315 writes into the ballot that
\* getAvailableFruits reads at the next slots.
FillSlot(ballot, day, meal, r) ==
    LET availableFruits == AvailableFruits(ballot, day, meal)
    IN  IF Len(availableFruits) > 0
        THEN [ballot EXCEPT ![day][meal] = availableFruits[RandomIndex(r, Len(availableFruits)) + 1]]
        ELSE ballot

RECURSIVE FillBallot(_, _, _)
\* Lines 310-318 for one participant, from slot i on.
FillBallot(ballot, r, i) ==
    IF i > Len(Slots)
    THEN ballot
    ELSE FillBallot(FillSlot(ballot, Slots[i][1], Slots[i][2], r), r, i + 1)

\* Lines 306-322, followed by the effect. The fill of a participant reads
\* that participant's ballot only. The quick fill is used on ballots that
\* hold MaxEdited selections at most.
quickFillRandom ==
    /\ mounted
    /\ Votes(users) <= MaxEdited
    /\ \E r \in 0..(RandomSteps - 1) :
           users' = [userName \in DOMAIN users |-> FillBallot(users[userName], r, 1)]
    /\ UNCHANGED <<userKeys, selectedUser, mounted>>
    /\ useEffect(users')

\* The component as the page drives it: a selection is one of the options of
\* the select of the selected participant.
NextPage ==
    \/ Mount
    \/ \E user \in Voters \cap DOMAIN users : setSelectedUser(user)
    \/ \E day \in DaySet, meal \in MealSet :
           \E fruit \in SelectOptions(day, meal) \cap (VoteFruits \cup {""}) :
               updateUserSelection(selectedUser, day, meal, fruit)
    \/ quickFillRandom
    \/ resetAllVotes

SpecPage == Init /\ [][NextPage]_vars

(***************************************************************************)
(* The participant list: addNewUser and removeUser.                        *)
(***************************************************************************)
\* Lines 271-272: the name is numbered from the number of participants.
NewUserName(us) == UserName(Cardinality(DOMAIN us) + 1)

\* Line 282: { ...prev, [newUserName]: newUser }. A key that prev has keeps
\* its place and gets the new value.
WithNewUser(us, newUserName) ==
    [u \in DOMAIN us \cup {newUserName} |-> IF u = newUserName THEN EmptyBallot ELSE us[u]]

\* Lines 270-286, followed by the effect.
addNewUser ==
    /\ mounted
    /\ Cardinality(DOMAIN users) < MaxUsers
    /\ users' = WithNewUser(users, NewUserName(users))
    /\ userKeys' = IF NewUserName(users) \in DOMAIN users THEN userKeys ELSE Append(userKeys, NewUserName(users))
    /\ UNCHANGED <<selectedUser, mounted>>
    /\ useEffect(users')

\* Lines 288-297, followed by the effect; nothing happens with one participant.
removeUser(userToRemove) ==
    /\ mounted
    /\ Len(userKeys) > 1
    /\ users' = [u \in DOMAIN users \ {userToRemove} |-> users[u]]
    /\ userKeys' = SelectSeq(userKeys, LAMBDA u : u # userToRemove)
    /\ selectedUser' = IF selectedUser = userToRemove THEN userKeys'[1] ELSE selectedUser
    /\ UNCHANGED mounted
    /\ useEffect(users')

\* The page with its participant list: participants are added and removed,
\* and the selected one edits the first slots of the grid.
NextUsers ==
    \/ Mount
    \/ \E user \in DOMAIN users : setSelectedUser(user)
    \/ \E i \in 1..NumEditSlots :
           \E fruit \in SelectOptions(Slots[i][1], Slots[i][2]) \cap (VoteFruits \cup {""}) :
               updateUserSelection(selectedUser, Slots[i][1], Slots[i][2], fruit)
    \/ addNewUser
    \/ \E userToRemove \in DOMAIN users : removeUser(userToRemove)

SpecUsers == Init /\ [][NextUsers]_vars

(***************************************************************************)
(* Properties. What they say of the plan is stated from the ballots and    *)
(* the published plan, not from the steps of the run.                      *)
(***************************************************************************)
SlotSet == DaySet \X MealSet

\* The position of a slot in the processing order.
SlotIndex(day, meal) == (IndexOf(days, day) - 1) * Len(meals) + IndexOf(meals, meal)

\* The number of ballots that hold fruit at the slot.
Tally(day, meal, fruit) == Cardinality({u \in DOMAIN users : users[u][day][meal] = fruit})

\* The catalog fruits with at least one vote at the slot.
Candidates(day, meal) == {users[u][day][meal] : u \in DOMAIN users} \cap FruitSet

\* The slots processed before the slot.
Before(day, meal) == {s \in SlotSet : SlotIndex(s[1], s[2]) < SlotIndex(day, meal)}

\* fruit breaks a rule at the slot, given the assignments made before it.
Fails(fruit, day, meal) ==
    \/ \E s \in Before(day, meal) : s[1] = day /\ optimalPlan[s[1]][s[2]].fruit = fruit
    \/ \E s \in Before(day, meal) : IndexOf(days, s[1]) = IndexOf(days, day) - 1 /\ optimalPlan[s[1]][s[2]].fruit = fruit
    \/ Cardinality({s \in Before(day, meal) : optimalPlan[s[1]][s[2]].fruit = fruit}) >= 2

\* f is ranked before g at the slot: more votes, or as many and earlier in the catalog.
RankedBefore(f, g, day, meal) ==
    \/ Tally(day, meal, f) > Tally(day, meal, g)
    \/ Tally(day, meal, f) = Tally(day, meal, g) /\ IndexOf(fruits, f) < IndexOf(fruits, g)

\* The first of the fruits S in the ranking of the slot.
First(S, day, meal) == CHOOSE f \in S : \A g \in S \ {f} : RankedBefore(f, g, day, meal)

\* The number of slots the plan assigns fruit to.
UsesOf(fruit) == Cardinality({s \in SlotSet : optimalPlan[s[1]][s[2]].fruit = fruit})

\* C1: the plan has exactly one record for each of the 12 slots and none for
\* another slot; a slot without a voted fruit has the record of no selection.
C1_OneRecordPerSlot ==
    mounted =>
        /\ DOMAIN optimalPlan = DaySet
        /\ \A day \in DaySet : DOMAIN optimalPlan[day] = MealSet
        /\ \A s \in SlotSet :
               Candidates(s[1], s[2]) = {} =>
                   /\ optimalPlan[s[1]][s[2]].fruit = null
                   /\ optimalPlan[s[1]][s[2]].votes = 0
                   /\ optimalPlan[s[1]][s[2]].reason = "No selection"
                   /\ optimalPlan[s[1]][s[2]].hasViolation = FALSE

\* A plan of a ballot set with votes at some slots and none at others.
C1_Witness ==
    /\ mounted
    /\ \E s \in SlotSet : Candidates(s[1], s[2]) = {} /\ optimalPlan[s[1]][s[2]].reason = "No selection"
    /\ \E s \in SlotSet : Candidates(s[1], s[2]) # {} /\ optimalPlan[s[1]][s[2]].fruit # null

\* C2: the usage count of a fruit is the number of slots assigned to it; a
\* fruit assigned to more than 2 slots is reported as over-used and has a slot
\* with hasViolation, and every assignment without hasViolation was made with
\* fewer than 2 earlier assignments of the fruit.
C2_OverCapOnlyForced ==
    mounted =>
        \A fruit \in FruitSet :
            /\ constraintStatus.fruitUsage[fruit] = UsesOf(fruit)
            /\ UsesOf(fruit) > 2 =>
                   /\ \E i \in DOMAIN OverUsed(constraintStatus.fruitUsage) : OverUsed(constraintStatus.fruitUsage)[i] = fruit
                   /\ \E s \in SlotSet : optimalPlan[s[1]][s[2]].fruit = fruit /\ optimalPlan[s[1]][s[2]].hasViolation
            /\ \A s \in SlotSet :
                   optimalPlan[s[1]][s[2]].fruit = fruit /\ ~optimalPlan[s[1]][s[2]].hasViolation =>
                       Cardinality({b \in Before(s[1], s[2]) : optimalPlan[b[1]][b[2]].fruit = fruit}) < 2

\* A plan that assigns a fruit to more than 2 slots.
C2_Witness == mounted /\ \E fruit \in FruitSet : UsesOf(fruit) > 2

\* C3: when Lunch and Dinner of a day are assigned the same fruit, one of the
\* two records has hasViolation.
C3_SameDay ==
    mounted =>
        \A day \in DaySet :
            optimalPlan[day]["Lunch"].fruit # null /\ optimalPlan[day]["Lunch"].fruit = optimalPlan[day]["Dinner"].fruit =>
                optimalPlan[day]["Lunch"].hasViolation \/ optimalPlan[day]["Dinner"].hasViolation

\* A plan with the same fruit at Lunch and Dinner of a day.
C3_Witness ==
    mounted /\ \E day \in DaySet :
        optimalPlan[day]["Lunch"].fruit # null /\ optimalPlan[day]["Lunch"].fruit = optimalPlan[day]["Dinner"].fruit

\* C4: when a slot of a day and a slot of the next day are assigned the same
\* fruit, one of the two records has hasViolation.
C4_ConsecutiveDays ==
    mounted =>
        \A i \in 1..(Len(days) - 1), m1 \in MealSet, m2 \in MealSet :
            optimalPlan[days[i]][m1].fruit # null /\ optimalPlan[days[i]][m1].fruit = optimalPlan[days[i + 1]][m2].fruit =>
                optimalPlan[days[i]][m1].hasViolation \/ optimalPlan[days[i + 1]][m2].hasViolation

\* A plan with the same fruit on two consecutive days, the earlier at Dinner.
C4_Witness ==
    mounted /\ \E i \in 1..(Len(days) - 1), m2 \in MealSet :
        optimalPlan[days[i]]["Dinner"].fruit # null /\ optimalPlan[days[i]]["Dinner"].fruit = optimalPlan[days[i + 1]][m2].fruit

\* The entries of the violation log for the slot, in log order.
SlotLog(day, meal) == SelectSeq(constraintStatus.violations, LAMBDA e : e.day = day /\ e.meal = meal)

\* C5: at a slot where every voted fruit fails a rule, the plan assigns the
\* highest-voted fruit (the first in the catalog among ties) with hasViolation,
\* its tally as votes and the reason 'Forced selection (<votes> votes)'. When
\* the only fruit voted at (Monday, Dinner) is the one assigned to (Monday,
\* Lunch), the log has exactly one entry for (Monday, Dinner): that fruit,
\* 'Same day rule', its votes.
C5_ForcedSelection ==
    mounted =>
        /\ \A s \in SlotSet :
               LET voted == Candidates(s[1], s[2])
                   top == First(voted, s[1], s[2])
               IN  voted # {} /\ (\A f \in voted : Fails(f, s[1], s[2])) =>
                       /\ optimalPlan[s[1]][s[2]].fruit = top
                       /\ optimalPlan[s[1]][s[2]].hasViolation = TRUE
                       /\ optimalPlan[s[1]][s[2]].votes = Tally(s[1], s[2], top)
                       /\ optimalPlan[s[1]][s[2]].reason = "Forced selection (" \o ToString(Tally(s[1], s[2], top)) \o " votes)"
        /\ \A f \in FruitSet :
               Candidates("Monday", "Dinner") = {f} /\ optimalPlan["Monday"]["Lunch"].fruit = f =>
                   /\ optimalPlan["Monday"]["Dinner"].fruit = f
                   /\ optimalPlan["Monday"]["Dinner"].hasViolation = TRUE
                   /\ SlotLog("Monday", "Dinner") =
                          <<[day |-> "Monday", meal |-> "Dinner", fruit |-> f, reason |-> "Same day rule", votes |-> Tally("Monday", "Dinner", f)]>>

\* A forced slot at which two voted fruits have the same number of votes.
C5_Witness ==
    /\ mounted
    /\ \E s \in SlotSet, f \in FruitSet, g \in FruitSet :
           /\ f # g /\ {f, g} \subseteq Candidates(s[1], s[2])
           /\ Tally(s[1], s[2], f) = Tally(s[1], s[2], g)
           /\ \A c \in Candidates(s[1], s[2]) : Fails(c, s[1], s[2])
           /\ optimalPlan[s[1]][s[2]].hasViolation

\* C9: at a slot where some voted fruit passes the three rules against the
\* assignments made before it (Monday..Saturday, Lunch before Dinner), the
\* plan assigns the passing fruit with the most votes, the earliest in the
\* catalog among ties, without hasViolation and with the reason
\* '<votes> votes, no violations'.
C9_BestPassing ==
    mounted =>
        \A s \in SlotSet :
            LET passing == {f \in Candidates(s[1], s[2]) : ~Fails(f, s[1], s[2])}
                best == First(passing, s[1], s[2])
            IN  passing # {} =>
                    /\ optimalPlan[s[1]][s[2]].fruit = best
                    /\ optimalPlan[s[1]][s[2]].hasViolation = FALSE
                    /\ optimalPlan[s[1]][s[2]].votes = Tally(s[1], s[2], best)
                    /\ optimalPlan[s[1]][s[2]].reason = ToString(Tally(s[1], s[2], best)) \o " votes, no violations"

\* A slot where the assigned fruit has more votes than a passing fruit that
\* comes before it in the catalog.
C9_Witness ==
    /\ mounted
    /\ \E s \in SlotSet, g \in FruitSet :
           /\ g \in Candidates(s[1], s[2])
           /\ ~Fails(g, s[1], s[2])
           /\ optimalPlan[s[1]][s[2]].fruit \in FruitSet \ {g}
           /\ ~optimalPlan[s[1]][s[2]].hasViolation
           /\ IndexOf(fruits, g) < IndexOf(fruits, optimalPlan[s[1]][s[2]].fruit)
           /\ Tally(s[1], s[2], g) < optimalPlan[s[1]][s[2]].votes

\* C10: the log entries of a slot are, in ranking order and one for each with
\* its votes, the voted fruits ranked before the selected one when the slot is
\* not forced, and all the voted fruits when it is; each of them fails a rule.
C10_LogOfSlot ==
    mounted =>
        \A s \in SlotSet :
            LET log == SlotLog(s[1], s[2])
                voted == Candidates(s[1], s[2])
                logged == IF optimalPlan[s[1]][s[2]].hasViolation
                          THEN voted
                          ELSE {f \in voted : RankedBefore(f, optimalPlan[s[1]][s[2]].fruit, s[1], s[2])}
            IN  /\ voted = {} => log = <<>>
                /\ voted # {} =>
                       /\ {log[i].fruit : i \in DOMAIN log} = logged
                       /\ Len(log) = Cardinality(logged)
                       /\ \A i \in DOMAIN log : log[i].votes = Tally(s[1], s[2], log[i].fruit) /\ Fails(log[i].fruit, s[1], s[2])
                       /\ \A i \in DOMAIN log, j \in DOMAIN log : i < j => RankedBefore(log[i].fruit, log[j].fruit, s[1], s[2])

\* A slot with a logged fruit and a fruit selected after it without violation,
\* and a forced slot with its log entry.
C10_Witness ==
    /\ mounted
    /\ \E s \in SlotSet : Len(SlotLog(s[1], s[2])) >= 1 /\ optimalPlan[s[1]][s[2]].fruit # null /\ ~optimalPlan[s[1]][s[2]].hasViolation
    /\ \E s \in SlotSet : Len(SlotLog(s[1], s[2])) >= 1 /\ optimalPlan[s[1]][s[2]].hasViolation

\* The outcomes of a run on the ballots us that starts from an empty plan,
\* usage counts of 0 and an empty log.
FreshRuns(us) ==
    ProcessDays([plan |-> <<>>, fruitUsage |-> [fruit \in FruitSet |-> 0], violations |-> <<>>],
                CountVotes(us), Cardinality(DOMAIN us), 1)

Offered(ballot, day, meal) ==
    SelectSeq(fruits, LAMBDA f :
        /\ \A m \in MealSet \ {meal} : ballot[day][m] # f
        /\ \A d \in DaySet, m \in MealSet :
               (IndexOf(days, d) = IndexOf(days, day) - 1 \/ IndexOf(days, d) = IndexOf(days, day) + 1) => ballot[d][m] # f
        /\ Cardinality({s \in SlotSet \ {<<day, meal>>} : ballot[s[1]][s[2]] = f}) < 2)

\* C7: getAvailableFruits returns, in catalog order, the fruits that are not
\* the participant's selection at the other meal of the day, are not selected
\* by the participant on the previous or the next day, and are selected by the
\* participant at fewer than 2 other slots: a function of that ballot alone.
C7_AvailableFruits ==
    mounted =>
        \A u \in DOMAIN users, s \in SlotSet :
            getAvailableFruits(u, s[1], s[2]) = Offered(users[u], s[1], s[2])

\* A participant with a fruit selected at two slots: it is offered at each of
\* them (the target slot is not counted) and not at a slot two days or more
\* away from both, where only the count of 2 excludes it.
C7_Witness ==
    /\ mounted
    /\ \E u \in DOMAIN users, s \in SlotSet, t \in SlotSet, x \in SlotSet :
           /\ s # t
           /\ users[u][s[1]][s[2]] # "" /\ users[u][s[1]][s[2]] = users[u][t[1]][t[2]]
           /\ users[u][s[1]][s[2]] \in Range(getAvailableFruits(u, s[1], s[2]))
           /\ IndexOf(days, x[1]) - IndexOf(days, s[1]) \notin -1..1
           /\ IndexOf(days, x[1]) - IndexOf(days, t[1]) \notin -1..1
           /\ users[u][s[1]][s[2]] \notin Range(getAvailableFruits(u, x[1], x[2]))

\* C8: a ballot with an item outside the catalog is rejected before a vote is
\* counted: the ballots a plan is computed from hold catalog fruits only.
C8_NonCatalogRejected ==
    mounted => \A u \in DOMAIN users, s \in SlotSet : users[u][s[1]][s[2]] \in FruitSet \cup {""}

\* The plan assigns fruit to a slot of the day.
OnDay(fruit, day) == \E meal \in MealSet : optimalPlan[day][meal].fruit = fruit

\* The number of slots before the slot that the plan assigns fruit to.
UsesBefore(fruit, day, meal) == Cardinality({s \in Before(day, meal) : optimalPlan[s[1]][s[2]].fruit = fruit})

\* C11: the reason of a log entry is 'Same day rule' when the fruit is the one
\* assigned to the earlier meal of the same day; otherwise 'Consecutive days
\* rule' when it is assigned to a meal of the previous day; otherwise 'Max 2
\* times per week rule', and then 2 earlier slots at least are assigned to it.
\* The assignments of the next day play no part.
C11_FirstFailingRule ==
    mounted =>
        \A i \in DOMAIN constraintStatus.violations :
            LET e == constraintStatus.violations[i]
                sameDay == \E s \in Before(e.day, e.meal) : s[1] = e.day /\ optimalPlan[s[1]][s[2]].fruit = e.fruit
                previous == IndexOf(days, e.day) > 1 /\ OnDay(e.fruit, days[IndexOf(days, e.day) - 1])
            IN  IF sameDay THEN e.reason = "Same day rule"
                ELSE IF previous THEN e.reason = "Consecutive days rule"
                ELSE e.reason = "Max 2 times per week rule" /\ UsesBefore(e.fruit, e.day, e.meal) >= 2

\* A log with an entry for a fruit that is over the cap and assigned to the
\* previous day, logged with the consecutive-days reason, and an entry with
\* the cap reason for a fruit that the plan assigns to the next day.
C11_Witness ==
    /\ mounted
    /\ \E i \in DOMAIN constraintStatus.violations :
           LET e == constraintStatus.violations[i]
           IN  /\ e.reason = "Consecutive days rule"
               /\ UsesBefore(e.fruit, e.day, e.meal) >= 2
    /\ \E i \in DOMAIN constraintStatus.violations :
           LET e == constraintStatus.violations[i]
           IN  /\ e.reason = "Max 2 times per week rule"
               /\ IndexOf(days, e.day) < Len(days)
               /\ OnDay(e.fruit, days[IndexOf(days, e.day) + 1])

\* The ballot has no fruit at both meals of a day, none on two consecutive
\* days, and none at more than 2 slots.
WithinRules(ballot) ==
    /\ \A day \in DaySet : ballot[day]["Lunch"] = "" \/ ballot[day]["Lunch"] # ballot[day]["Dinner"]
    /\ \A i \in 1..(Len(days) - 1), m1 \in MealSet, m2 \in MealSet :
           ballot[days[i]][m1] = "" \/ ballot[days[i]][m1] # ballot[days[i + 1]][m2]
    /\ \A s \in SlotSet :
           ballot[s[1]][s[2]] = "" \/ Cardinality({t \in SlotSet : ballot[t[1]][t[2]] = ballot[s[1]][s[2]]}) <= 2

\* C12: from empty ballots, whatever options of the selects are chosen and
\* whatever the quick fill draws, the ballot of every participant has no
\* fruit at Lunch and Dinner of one day, none on two consecutive days and
\* none at more than 2 slots.
C12_BallotsWithinRules == \A u \in DOMAIN users : WithinRules(users[u])

\* A ballot filled at all its slots by the quick fill, after a selection
\* (nothing but the participant's earlier selection of Apple keeps the draw
\* of the first available fruit from putting Apple at Monday Lunch), with a
\* fruit at 2 slots.
C12_Witness ==
    /\ mounted
    /\ \E u \in DOMAIN users :
           /\ \A s \in SlotSet : users[u][s[1]][s[2]] # ""
           /\ users[u]["Monday"]["Lunch"] = fruits[2]
           /\ \E s \in SlotSet, t \in SlotSet : s # t /\ users[u][s[1]][s[2]] = users[u][t[1]][t[2]]
    /\ optimalPlan["Saturday"]["Dinner"].fruit # null

\* C13: a call of addNewUser makes the participants one more, the new one
\* with an empty ballot under a name that no participant had, and leaves the
\* ballot of every participant there was as it is.
C13_AddNewUser ==
    [][addNewUser =>
           /\ Cardinality(DOMAIN users') = Cardinality(DOMAIN users) + 1
           /\ \E u \in DOMAIN users' \ DOMAIN users : users'[u] = EmptyBallot
           /\ \A u \in DOMAIN users : users'[u] = users[u]]_vars

====
